---- MODULE Spec2Model ----
(***************************************************************************)
(* A model of the AI news digest pipeline: the recency filter, the         *)
(* collector, the deduplicator, the selector, the summarizer and the       *)
(* workflow coordinator, each translated from its Python source.           *)
(*                                                                         *)
(* Text is modelled as a sequence of one-character strings, so that        *)
(* lower-casing and the similarity ratio are computed, not assumed.        *)
(***************************************************************************)
EXTENDS Integers, Sequences, FiniteSets, TLC

VARIABLES
    \* NewsFetcherAgent._deduplicate_articles
    d_articles,          \* the argument `articles`
    d_pos,               \* number of items of `articles` the for loop has consumed
    deduplicated,        \* the local list `deduplicated`
    seen_urls,           \* the local set `seen_urls`
    duplicates_removed,  \* the local counter `duplicates_removed`
    d_before,            \* history: the loop's state as it was before each consumed item
    d_pc,                \* "loop" while iterating, "done" after the return
    \* NewsFetcherAgent._rank_articles_efficiently
    k_articles,          \* the argument `articles`
    k_target,            \* the argument `target_count`
    k_smart,             \* config.SMART_RANKING_ENABLED
    k_calls,             \* number of self.execute calls the call has made
    k_response,          \* history: what self.execute returned, if it was called
    k_result,            \* the returned list
    k_pc,                \* "start" before the call, "done" after the return
    \* NewsFetcherAgent._is_article_recent
    r_published,         \* the argument `published_date`
    r_max_age,           \* the argument `max_age_days` (given or None)
    r_now,               \* datetime.now(), in hours since the epoch
    r_result,            \* the returned value
    r_pc,                \* "start", then "done" after a return, "raised" after a raise
    \* SummarizerAgent.summarize_articles
    s_articles,          \* the argument `articles`
    s_pos,               \* number of articles the for loop has consumed
    summarized_articles, \* the local list `summarized_articles`
    s_outcomes,          \* history: what the capability did on each article's call
    s_pc,                \* "loop" while iterating, "done" after the return
    \* NewsResearchOrchestrator.run
    o_filter_criteria,   \* whether the argument `filter_criteria` is given
    o_format,            \* config.DIGEST_FORMAT
    o_elapsed,           \* time.time() - start_time now, in seconds
    o_collect_elapsed,   \* history: o_elapsed when fetch_news returned
    o_checked,           \* history: a budget check passed since the last phase ended
    o_invoked,           \* history: the phases entered, each with o_checked at entry
    o_articles,          \* the local `articles`
    o_summarized,        \* the local `summarized_articles`
    o_digest,            \* the local `digest`
    o_result,            \* the returned value: "None" or "filepath"
    o_pc,                \* the place in run
    \* NewsFetcherAgent.fetch_news
    f_feeds,             \* what feedparser.parse gives for each configured feed
    f_max_articles,      \* the argument `max_articles` (given or None)
    f_feed,              \* number of feeds the outer for loop has finished
    f_entry,             \* number of entries of the current feed consumed
    feed_articles_added, \* the local counter `feed_articles_added`
    f_articles,          \* the local list `articles`
    f_origin,            \* history: for each item of `articles`, the feed it came from
    f_failed,            \* history: the feeds whose processing raised
    rejected_old_articles,     \* the local counter `rejected_old_articles`
    rejected_non_ai_articles,  \* the local counter `rejected_non_ai_articles`
    f_result,            \* the returned list
    f_printed,           \* the counts the summary lines printed after the loop name
    f_pc                 \* "next_feed", "entries", then "done" or "raised"

dvars == <<d_articles, d_pos, deduplicated, seen_urls, duplicates_removed, d_before, d_pc>>

kvars == <<k_articles, k_target, k_smart, k_calls, k_response, k_result, k_pc>>

rvars == <<r_published, r_max_age, r_now, r_result, r_pc>>

svars == <<s_articles, s_pos, summarized_articles, s_outcomes, s_pc>>

ovars == <<o_filter_criteria, o_format, o_elapsed, o_collect_elapsed, o_checked, o_invoked,
           o_articles, o_summarized, o_digest, o_result, o_pc>>

fvars == <<f_feeds, f_max_articles, f_feed, f_entry, feed_articles_added, f_articles,
           f_origin, f_failed, rejected_old_articles, rejected_non_ai_articles, f_result,
           f_printed, f_pc>>

vars == <<dvars, kvars, rvars, svars, ovars, fvars>>

----------------------------------------------------------------------------
(* Generic helpers *)

Range(s) == {s[i] : i \in 1..Len(s)}

Min(S) == CHOOSE x \in S : \A y \in S : x <= y

Max(S) == CHOOSE x \in S : \A y \in S : x >= y

\* All sequences over S of length at most n
SeqUpTo(S, n) == UNION {[1..k -> S] : k \in 0..n}

\* s[1..n], like the Python slice s[:n] for n >= 0
Take(s, n) == SubSeq(s, 1, Min({n, Len(s)}))

----------------------------------------------------------------------------
(* str.lower() on the characters the model's texts use *)

Lower(c) ==
    CASE c = "A" -> "a" [] c = "B" -> "b" [] c = "C" -> "c" [] c = "D" -> "d"
      [] c = "E" -> "e" [] c = "F" -> "f" [] c = "G" -> "g" [] c = "H" -> "h"
      [] c = "I" -> "i" [] c = "J" -> "j" [] c = "K" -> "k" [] c = "L" -> "l"
      [] c = "M" -> "m" [] c = "N" -> "n" [] c = "O" -> "o" [] c = "P" -> "p"
      [] c = "Q" -> "q" [] c = "R" -> "r" [] c = "S" -> "s" [] c = "T" -> "t"
      [] c = "U" -> "u" [] c = "V" -> "v" [] c = "W" -> "w" [] c = "X" -> "x"
      [] c = "Y" -> "y" [] c = "Z" -> "z" [] OTHER -> c

LowerStr(s) == [i \in 1..Len(s) |-> Lower(s[i])]

----------------------------------------------------------------------------
(* difflib.SequenceMatcher(None, a, b).ratio(), as title_similarity uses it. *)
(* Positions are 1-based; a block [lo, hi) is half-open as in difflib.       *)

\* Length of the common run of a from i and b from j, inside [.., ahi) x [.., bhi)
RECURSIVE RunLen(_, _, _, _, _, _)
RunLen(a, i, ahi, b, j, bhi) ==
    IF i < ahi /\ j < bhi /\ a[i] = b[j]
    THEN 1 + RunLen(a, i + 1, ahi, b, j + 1, bhi)
    ELSE 0

\* find_longest_match: the longest block, of those the one starting earliest
\* in a, and of those the one starting earliest in b; <<i, j, k>>
FindLongestMatch(a, alo, ahi, b, blo, bhi) ==
    LET pairs == (alo..(ahi - 1)) \X (blo..(bhi - 1))
        k == IF pairs = {} THEN 0
             ELSE Max({RunLen(a, p[1], ahi, b, p[2], bhi) : p \in pairs})
    IN  IF k = 0 THEN <<alo, blo, 0>>
        ELSE LET best == {p \in pairs : RunLen(a, p[1], ahi, b, p[2], bhi) = k}
                 i == Min({p[1] : p \in best})
                 j == Min({p[2] : p \in {q \in best : q[1] = i}})
             IN  <<i, j, k>>

\* get_matching_blocks, summed: the number of matched characters
RECURSIVE MatchCount(_, _, _, _, _, _)
MatchCount(a, alo, ahi, b, blo, bhi) ==
    LET m == FindLongestMatch(a, alo, ahi, b, blo, bhi)
    IN  IF m[3] = 0 THEN 0
        ELSE m[3] + MatchCount(a, alo, m[1], b, blo, m[2])
                  + MatchCount(a, m[1] + m[3], ahi, b, m[2] + m[3], bhi)

\* Matched characters of the two lower-cased titles
TitleMatches(title1, title2) ==
    MatchCount(LowerStr(title1), 1, Len(title1) + 1,
               LowerStr(title2), 1, Len(title2) + 1)

\* config.DEDUPLICATION_THRESHOLD = 0.85, in hundredths
DEDUPLICATION_THRESHOLD == 85

\* title_similarity(title1, title2) > config.DEDUPLICATION_THRESHOLD, where
\* ratio() is 2.0 * matches / (len(a) + len(b)), and 1.0 for two empty strings
SimilarTitles(title1, title2) ==
    LET total == Len(title1) + Len(title2)
    IN  IF total = 0 THEN 100 > DEDUPLICATION_THRESHOLD
        ELSE 2 * TitleMatches(title1, title2) * 100 > DEDUPLICATION_THRESHOLD * total

----------------------------------------------------------------------------
(* Articles: the dict fetch_news builds (fetched_at, a capture time stamp   *)
(* no code reads, is left out).                                             *)

Article(title, description, link, published, source) ==
    [title |-> title, description |-> description, link |-> link,
     published |-> published, source |-> source]

\* Titles: the first and third, and the second and third, are near-duplicates
\* (ratio 0.875), the first and second are not (0.75); the second differs from
\* the third in case as well.
TitleChipBang == <<"A", "I", " ", "c", "h", "i", "p", "!">>
TitleShips    == <<"a", "i", " ", "S", "H", "I", "P", "S">>
TitleChips    == <<"A", "I", " ", "c", "h", "i", "p", "s">>

DedupTitles == {TitleChipBang, TitleShips, TitleChips}

\* Further titles of feed entries, none a near-duplicate of another title
TitleLlm == <<"L", "L", "M", " ", "n", "e", "w", "s">>
TitleGpt == <<"G", "P", "T", " ", "t", "o", "o", "l", "s">>
TitleMl  == <<"M", "L", " ", "i", "d", "e", "a", "s">>
TitleNlp == <<"N", "L", "P", " ", "g", "a", "i", "n", "s">>
TitleTax == <<"T", "a", "x", " ", "c", "u", "t", "s">>

\* entry.get("title", "No Title")
NoTitle == <<"N", "o", " ", "T", "i", "t", "l", "e">>

KnownTitles ==
    DedupTitles \cup {TitleLlm, TitleGpt, TitleMl, TitleNlp, TitleTax, NoTitle}

DescShort == <<"n", "e", "w">>
DescLong  == <<"n", "e", "w", " ", "A", "I">>

DedupDescriptions == {DescShort, DescLong}

DedupLinks == {"https://a/1", "https://a/2", "https://a/3"}

\* A publication time stamp string, by what dateutil's parser makes of it:
\* kind "None" (no value), "empty" (""), "unknown" ("Unknown date"), "garbage"
\* (parse raises), "naive" (a datetime without offset) or "aware" (a datetime
\* with a UTC offset); hour is the wall-clock time in hours since an epoch,
\* off the UTC offset in hours.
Published(kind, hour, off) == [kind |-> kind, hour |-> hour, off |-> off]

\* The link and description pairs of the deduplicator's inputs: one link comes
\* with either description, one with the short and one with the long one
DedupLinkDescriptions ==
    {<<"https://a/1", DescShort>>, <<"https://a/1", DescLong>>,
     <<"https://a/2", DescShort>>, <<"https://a/3", DescLong>>}

DedupArticles ==
    {Article(t, ld[2], ld[1], Published("naive", 0, 0), "Feed") :
        t \in DedupTitles, ld \in DedupLinkDescriptions}

\* Longest input list of the deduplicator
MaxDedupLen == 4

----------------------------------------------------------------------------
(* NewsFetcherAgent._deduplicate_articles *)

\* list.remove(x): drop the first element equal to x
RemoveFirst(s, x) ==
    LET i == Min({k \in 1..Len(s) : s[k] = x})
    IN  [k \in 1..(Len(s) - 1) |-> IF k < i THEN s[k] ELSE s[k + 1]]

\* The near-duplicate pairs among the model's titles, computed once
SimilarTable ==
    {p \in {<<t1, t2>> : t1 \in KnownTitles, t2 \in KnownTitles} :
        SimilarTitles(p[1], p[2])}

\* similarity > config.DEDUPLICATION_THRESHOLD for the two titles
IsDuplicateTitle(title1, title2) ==
    IF title1 \in KnownTitles /\ title2 \in KnownTitles
    THEN <<title1, title2>> \in SimilarTable
    ELSE SimilarTitles(title1, title2)

\* Positions of `result` whose title is a near-duplicate of `title`
SimilarPositions(result, title) ==
    {k \in 1..Len(result) : IsDuplicateTitle(title, result[k].title)}

\* DedupOne where a replacement forgets to record the new link as seen
MutDedupOneLinkNotRecorded(st, article) ==
    IF article.link \in st.seen_urls
    THEN [st EXCEPT !.duplicates_removed = @ + 1]
    ELSE LET hits == SimilarPositions(st.deduplicated, article.title)
         IN  IF hits = {}
             THEN [st EXCEPT !.deduplicated = Append(@, article),
                             !.seen_urls = @ \cup {article.link}]
             ELSE LET existing == st.deduplicated[Min(hits)]
                  IN  IF Len(article.description) > Len(existing.description)
                      THEN [st EXCEPT
                              !.deduplicated = Append(RemoveFirst(@, existing), article),
                              !.duplicates_removed = @ + 1]
                      ELSE [st EXCEPT !.duplicates_removed = @ + 1]

\* DedupOne where a replacement appends the better item but leaves the old one
MutDedupOneNoRemove(st, article) ==
    IF article.link \in st.seen_urls
    THEN [st EXCEPT !.duplicates_removed = @ + 1]
    ELSE LET hits == SimilarPositions(st.deduplicated, article.title)
         IN  IF hits = {}
             THEN [st EXCEPT !.deduplicated = Append(@, article),
                             !.seen_urls = @ \cup {article.link}]
             ELSE LET existing == st.deduplicated[Min(hits)]
                  IN  IF Len(article.description) > Len(existing.description)
                      THEN [st EXCEPT
                              !.deduplicated = Append(@, article),
                              !.seen_urls = @ \cup {article.link},
                              !.duplicates_removed = @ + 1]
                      ELSE [st EXCEPT !.duplicates_removed = @ + 1]

\* DedupOne where a description of equal length already replaces the kept item
MutDedupOneReplaceOnEqual(st, article) ==
    IF article.link \in st.seen_urls
    THEN [st EXCEPT !.duplicates_removed = @ + 1]
    ELSE LET hits == SimilarPositions(st.deduplicated, article.title)
         IN  IF hits = {}
             THEN [st EXCEPT !.deduplicated = Append(@, article),
                             !.seen_urls = @ \cup {article.link}]
             ELSE LET existing == st.deduplicated[Min(hits)]
                  IN  IF Len(article.description) >= Len(existing.description)
                      THEN [deduplicated |->
                                Append(RemoveFirst(st.deduplicated, existing), article),
                            seen_urls |-> st.seen_urls \cup {article.link},
                            duplicates_removed |-> st.duplicates_removed + 1]
                      ELSE [st EXCEPT !.duplicates_removed = @ + 1]

\* One iteration of the for loop over `articles`: the state after `article`
DedupOne(st, article) ==
    IF article.link \in st.seen_urls
    THEN [st EXCEPT !.duplicates_removed = @ + 1]
    ELSE LET hits == SimilarPositions(st.deduplicated, article.title)
         IN  IF hits = {}
             THEN [st EXCEPT !.deduplicated = Append(@, article),
                             !.seen_urls = @ \cup {article.link}]
             ELSE LET existing == st.deduplicated[Min(hits)]
                  IN  IF Len(article.description) > Len(existing.description)
                      THEN [deduplicated |->
                                Append(RemoveFirst(st.deduplicated, existing), article),
                            seen_urls |-> st.seen_urls \cup {article.link},
                            duplicates_removed |-> st.duplicates_removed + 1]
                      ELSE [st EXCEPT !.duplicates_removed = @ + 1]

DedupState == [deduplicated |-> deduplicated, seen_urls |-> seen_urls,
               duplicates_removed |-> duplicates_removed]

DedupInit ==
    /\ d_articles \in SeqUpTo(DedupArticles, MaxDedupLen)
    /\ d_pos = 0
    /\ deduplicated = <<>>
    /\ seen_urls = {}
    /\ duplicates_removed = 0
    /\ d_before = <<>>
    /\ d_pc = "loop"

\* The deduplicator's variables while another operation is the one modelled
DedupIdle ==
    /\ d_articles = <<>>
    /\ d_pos = 0
    /\ deduplicated = <<>>
    /\ seen_urls = {}
    /\ duplicates_removed = 0
    /\ d_before = <<>>
    /\ d_pc = "idle"

DedupStep ==
    /\ d_pc = "loop"
    /\ d_pos < Len(d_articles)
    /\ LET st == DedupOne(DedupState, d_articles[d_pos + 1])
       IN  /\ deduplicated' = st.deduplicated
           /\ seen_urls' = st.seen_urls
           /\ duplicates_removed' = st.duplicates_removed
    /\ d_before' = Append(d_before, DedupState)
    /\ d_pos' = d_pos + 1
    /\ UNCHANGED <<d_articles, d_pc, kvars, rvars, svars, ovars, fvars>>

DedupReturn ==
    /\ d_pc = "loop"
    /\ d_pos = Len(d_articles)
    /\ d_pc' = "done"
    /\ UNCHANGED <<d_articles, d_pos, deduplicated, seen_urls, duplicates_removed, d_before,
                   kvars, rvars, svars, ovars, fvars>>

DedupNext == DedupStep \/ DedupReturn

----------------------------------------------------------------------------
(* BaseAgent.execute: the generation capability and what execute returns.   *)
(* A text is modelled by what the code reads of it: `parts`, the pieces of  *)
(* text.split(","), each one an integer literal or not.                     *)

Token(ok, val) == [ok |-> ok, val |-> val]

Junk == Token(FALSE, 0)

Text(kind, parts) == [kind |-> kind, parts |-> parts]

\* Python's None, returned when the completion carries no content
NoneValue == Text("None", <<>>)

\* "Error: API call timed out after 30 seconds"
TimeoutErrorText == Text("timeout_error", <<Junk>>)

\* "Error executing task: <message>"
TaskErrorText == Text("task_error", <<Junk>>)

Outcome(kind, content) == [kind |-> kind, content |-> content]

\* execute: the try returns the completion's content, the except turns every
\* exception into an error string
Execute(outcome) ==
    IF outcome.kind = "ok" THEN outcome.content
    ELSE IF outcome.kind = "timeout" THEN TimeoutErrorText
    ELSE TaskErrorText

\* What the capability can do on one call, given the contents it may answer
Outcomes(contents) ==
    {Outcome("ok", c) : c \in contents \cup {NoneValue}}
        \cup {Outcome("timeout", NoneValue), Outcome("error", NoneValue)}

----------------------------------------------------------------------------
(* NewsFetcherAgent._rank_articles_efficiently *)

\* Longest input list of the selector, largest target_count, longest response
MaxRankLen == 4
MaxTarget == 2
MaxRespLen == 2

RankArticles ==
    {Article(TitleChips, DescShort, "https://a/1", Published("naive", 2, 0), "Feed A"),
     Article(TitleShips, DescLong, "https://a/2", Published("naive", 1, 0), "Feed B"),
     Article(TitleChipBang, DescShort, "https://a/3", Published("unknown", 0, 0), "Feed A"),
     Article(TitleLlm, DescShort, "https://a/4", Published("garbage", 0, 0), "Feed B")}

\* The answers of the ranking capability: comma-separated pieces, each a
\* number from -1 to one past the longest list, or not a number
RankTokens == {Junk} \cup {Token(TRUE, v) : v \in (-1)..(MaxRankLen + 1)}

RankContents == {Text("content", p) : p \in SeqUpTo(RankTokens, MaxRespLen) \ {<<>>}}

\* date_parser.parse(x['published']) raises for this article
ParseRaises(a) == a.published.kind \in {"garbage", "empty", "None"}

\* The sort key: the parsed time, or datetime.min for "Unknown date"
SortKey(a) ==
    IF a.published.kind = "unknown" THEN <<0, 0>>
    ELSE <<1, a.published.hour - a.published.off>>

KeyLess(x, y) == x[1] < y[1] \/ (x[1] = y[1] /\ x[2] < y[2])

\* Comparing an offset-aware with an offset-naive datetime raises TypeError
CompareRaises(articles) ==
    \E i, j \in 1..Len(articles) :
        /\ articles[i].published.kind = "aware"
        /\ articles[j].published.kind \in {"naive", "unknown"}

\* sorted(articles, key=..., reverse=True): descending and stable
SortedByDateDesc(articles) ==
    LET n == Len(articles)
        rank(i) == Cardinality({j \in 1..n : KeyLess(SortKey(articles[i]), SortKey(articles[j]))})
                   + Cardinality({j \in 1..(i - 1) : SortKey(articles[j]) = SortKey(articles[i])})
                   + 1
    IN  [p \in 1..n |-> articles[CHOOSE i \in 1..n : rank(i) = p]]

\* The free tier: recency order, or input order when the sort raises
RecencySelection(articles, target_count) ==
    IF (\E i \in 1..Len(articles) : ParseRaises(articles[i])) \/ CompareRaises(articles)
    THEN Take(articles, target_count)
    ELSE Take(SortedByDateDesc(articles), target_count)

\* [articles[i] for i in selected_indices if 0 <= i < len(articles)]
RECURSIVE PickInRange(_, _)
PickInRange(articles, indices) ==
    IF indices = <<>> THEN <<>>
    ELSE LET i == Head(indices)
             rest == PickInRange(articles, Tail(indices))
         IN  IF 0 <= i /\ i < Len(articles) THEN <<articles[i + 1]>> \o rest ELSE rest

\* The paid tier without the final [:target_count]
MutParseRankingNoTruncate(articles, target_count, response) ==
    IF response = NoneValue \/ \E k \in 1..Len(response.parts) : ~response.parts[k].ok
    THEN Take(articles, target_count)
    ELSE PickInRange(articles, [k \in 1..Len(response.parts) |-> response.parts[k].val - 1])

\* The paid tier whose except branch returns nothing
MutParseRankingFallbackEmpty(articles, target_count, response) ==
    IF response = NoneValue \/ \E k \in 1..Len(response.parts) : ~response.parts[k].ok
    THEN <<>>
    ELSE Take(PickInRange(articles, [k \in 1..Len(response.parts) |-> response.parts[k].val - 1]),
              target_count)

\* The paid tier reading the numbers as 0-based
MutParseRankingZeroBased(articles, target_count, response) ==
    IF response = NoneValue \/ \E k \in 1..Len(response.parts) : ~response.parts[k].ok
    THEN Take(articles, target_count)
    ELSE Take(PickInRange(articles, [k \in 1..Len(response.parts) |-> response.parts[k].val]),
              target_count)

\* The paid tier after execute returned `response`
ParseRanking(articles, target_count, response) ==
    IF response = NoneValue \/ \E k \in 1..Len(response.parts) : ~response.parts[k].ok
    THEN \* response.split or int() raised: the except branch
         Take(articles, target_count)
    ELSE LET selected_indices ==
                 [k \in 1..Len(response.parts) |-> response.parts[k].val - 1]
         IN  Take(PickInRange(articles, selected_indices), target_count)

\* A tier choice without the no-op tier
MutRankTierAlwaysPaid(articles, target_count, smart) ==
    IF ~smart \/ 2 * Len(articles) <= 3 * target_count THEN 1 ELSE 2

\* A tier choice that does not read config.SMART_RANKING_ENABLED
MutRankTierIgnoresSwitch(articles, target_count, smart) ==
    IF Len(articles) <= target_count THEN 0
    ELSE IF 2 * Len(articles) <= 3 * target_count THEN 1
    ELSE 2

\* Which tier the call takes: 0 no-op, 1 recency, 2 the ranking capability
RankTier(articles, target_count, smart) ==
    IF Len(articles) <= target_count THEN 0
    ELSE IF ~smart \/ 2 * Len(articles) <= 3 * target_count THEN 1
    ELSE 2

RankInit ==
    /\ k_articles \in SeqUpTo(RankArticles, MaxRankLen)
    /\ k_target \in 0..MaxTarget
    /\ k_smart \in BOOLEAN
    /\ k_calls = 0
    /\ k_response = NoneValue
    /\ k_result = <<>>
    /\ k_pc = "start"

RankIdle ==
    /\ k_articles = <<>>
    /\ k_target = 0
    /\ k_smart = TRUE
    /\ k_calls = 0
    /\ k_response = NoneValue
    /\ k_result = <<>>
    /\ k_pc = "idle"

\* len(articles) <= target_count: return articles
RankNoOp ==
    /\ k_pc = "start"
    /\ RankTier(k_articles, k_target, k_smart) = 0
    /\ k_result' = k_articles
    /\ k_pc' = "done"
    /\ UNCHANGED <<k_articles, k_target, k_smart, k_calls, k_response, dvars, rvars, svars, ovars, fvars>>

\* ranking disabled or a small overage: recency-based selection
RankByRecency ==
    /\ k_pc = "start"
    /\ RankTier(k_articles, k_target, k_smart) = 1
    /\ k_result' = RecencySelection(k_articles, k_target)
    /\ k_pc' = "done"
    /\ UNCHANGED <<k_articles, k_target, k_smart, k_calls, k_response, dvars, rvars, svars, ovars, fvars>>

\* a significant overage: one call of the ranking capability, then the parse
RankByCapability ==
    /\ k_pc = "start"
    /\ RankTier(k_articles, k_target, k_smart) = 2
    /\ \E outcome \in Outcomes(RankContents) :
          LET response == Execute(outcome)
          IN  /\ k_response' = response
              /\ k_result' = ParseRanking(k_articles, k_target, response)
    /\ k_calls' = k_calls + 1
    /\ k_pc' = "done"
    /\ UNCHANGED <<k_articles, k_target, k_smart, dvars, rvars, svars, ovars, fvars>>

RankNext == RankNoOp \/ RankByRecency \/ RankByCapability

----------------------------------------------------------------------------
(* NewsFetcherAgent._is_article_recent *)

\* config.MAX_ARTICLE_AGE_DAYS
MAX_ARTICLE_AGE_DAYS == 7

\* Last hour on the model's clock, and the largest max_age_days passed explicitly
MaxClock == 200
MaxAgeDays == 1

\* The argument max_age_days: None, or a number of days
AgeArg(given, days) == [given |-> given, days |-> days]

\* Call result: a returned value or a raised exception
Returned(value) == [raised |-> FALSE, value |-> value]

Raised == [raised |-> TRUE, value |-> FALSE]

\* (current_date - article_date).days: timedelta keeps days as the floor
AgeDays(now, article_hour) == (now - article_hour) \div 24

\* _is_article_recent with the except branch accepting instead of rejecting
MutIsArticleRecentFailOpen(published_date, max_age_days, now) ==
    LET max == IF max_age_days.given THEN max_age_days.days ELSE MAX_ARTICLE_AGE_DAYS
    IN  IF published_date.kind \in {"None", "empty", "unknown"}
        THEN Returned(FALSE)
        ELSE IF published_date.kind = "garbage"
        THEN Returned(TRUE)
        ELSE Returned(AgeDays(now, published_date.hour) <= max)

\* _is_article_recent(published_date, max_age_days) called at the hour `now`
IsArticleRecent(published_date, max_age_days, now) ==
    LET max == IF max_age_days.given THEN max_age_days.days ELSE MAX_ARTICLE_AGE_DAYS
    IN  IF published_date.kind \in {"None", "empty", "unknown"}
        THEN \* not published_date or published_date == "Unknown date"
             Returned(FALSE)
        ELSE IF published_date.kind = "garbage"
        THEN \* date_parser.parse raises, the except branch rejects
             Returned(FALSE)
        ELSE \* replace(tzinfo=None) keeps the wall-clock time of an aware date
             Returned(AgeDays(now, published_date.hour) <= max)

\* The time stamp strings of the model
UnparsedDates ==
    {Published(k, 0, 0) : k \in {"None", "empty", "unknown", "garbage"}}

ParsedDates ==
    {Published("naive", h, 0) : h \in 0..MaxClock}
        \cup {Published("aware", h, 2) : h \in 0..MaxClock}

RecentInit ==
    /\ r_published \in UnparsedDates \cup ParsedDates
    /\ r_max_age \in {AgeArg(FALSE, 0)} \cup {AgeArg(TRUE, n) : n \in 0..MaxAgeDays}
    /\ r_now \in 0..MaxClock
    /\ r_result = FALSE
    /\ r_pc = "start"

RecentIdle ==
    /\ r_published = Published("None", 0, 0)
    /\ r_max_age = AgeArg(FALSE, 0)
    /\ r_now = 0
    /\ r_result = FALSE
    /\ r_pc = "idle"

RecentCall ==
    /\ r_pc = "start"
    /\ LET res == IsArticleRecent(r_published, r_max_age, r_now)
       IN  /\ r_result' = res.value
           /\ r_pc' = IF res.raised THEN "raised" ELSE "done"
    /\ UNCHANGED <<r_published, r_max_age, r_now, dvars, kvars, svars, ovars, fvars>>

RecentNext == RecentCall

----------------------------------------------------------------------------
(* SummarizerAgent.summarize_article and summarize_articles *)

\* Longest input list of the summarizer
MaxSumLen == 3

SumArticles ==
    {Article(TitleChips, DescShort, "https://a/1", Published("naive", 2, 0), "Feed A"),
     Article(TitleShips, DescLong, "https://a/2", Published("naive", 1, 0), "Feed B")}

\* The summary texts the capability may answer
SummaryContents == {Text("content", <<Junk>>)}

\* {**article, "ai_summary": summary}
Enriched(article, summary) ==
    [article |-> article, has_summary |-> TRUE, ai_summary |-> summary]

\* The article as it came, without an ai_summary key
Unenriched(article) ==
    [article |-> article, has_summary |-> FALSE, ai_summary |-> NoneValue]

\* summarize_article: summary = self.execute(task), which returns a string
\* (or None) whatever the capability did, then the enriched copy
SummarizeArticle(article, outcome) ==
    Returned(Enriched(article, Execute(outcome)))

\* The try/except of summarize_articles around one article
SummarizeOne(article, outcome) ==
    LET res == SummarizeArticle(article, outcome)
    IN  IF res.raised THEN Unenriched(article) ELSE res.value

SumInit ==
    /\ s_articles \in SeqUpTo(SumArticles, MaxSumLen)
    /\ s_pos = 0
    /\ summarized_articles = <<>>
    /\ s_outcomes = <<>>
    /\ s_pc = "loop"

SumIdle ==
    /\ s_articles = <<>>
    /\ s_pos = 0
    /\ summarized_articles = <<>>
    /\ s_outcomes = <<>>
    /\ s_pc = "idle"

SumStep ==
    /\ s_pc = "loop"
    /\ s_pos < Len(s_articles)
    /\ \E outcome \in Outcomes(SummaryContents) :
          /\ summarized_articles' =
                 Append(summarized_articles, SummarizeOne(s_articles[s_pos + 1], outcome))
          /\ s_outcomes' = Append(s_outcomes, outcome)
    /\ s_pos' = s_pos + 1
    /\ UNCHANGED <<s_articles, s_pc, dvars, kvars, rvars, ovars, fvars>>

SumReturn ==
    /\ s_pc = "loop"
    /\ s_pos = Len(s_articles)
    /\ s_pc' = "done"
    /\ UNCHANGED <<s_articles, s_pos, summarized_articles, s_outcomes,
                   dvars, kvars, rvars, ovars, fvars>>

SumNext == SumStep \/ SumReturn

----------------------------------------------------------------------------
(* NewsFetcherAgent.filter_articles *)

\* config.MAX_ARTICLES
MAX_ARTICLES == 10

\* response parsed as 1-based numbers; the articles at the in-range ones, or
\* the articles as they came when the parse raises
FilterArticles(articles, criteria, response) ==
    IF ~criteria \/ Len(articles) <= MAX_ARTICLES THEN articles
    ELSE IF response = NoneValue \/ \E k \in 1..Len(response.parts) : ~response.parts[k].ok
    THEN articles
    ELSE PickInRange(articles, [k \in 1..Len(response.parts) |-> response.parts[k].val - 1])

----------------------------------------------------------------------------
(* NewsResearchOrchestrator.run *)

\* config.MAX_EXECUTION_TIME_SECONDS
MAX_EXECUTION_TIME_SECONDS == 300

\* Longest batch fetch_news hands to run (max_articles may exceed MAX_ARTICLES),
\* and the longest answer of the filter capability
MaxRunLen == 11
MaxFilterRespLen == 2

\* The seconds one phase may take: none, one, the whole budget or just over it
PhaseSeconds == {0, 1, MAX_EXECUTION_TIME_SECONDS, MAX_EXECUTION_TIME_SECONDS + 1}

\* The batch of n articles, each named by its position in the collected batch
RunBatch(n) == [i \in 1..n |-> i]

FilterTokens == {Junk} \cup {Token(TRUE, v) : v \in 0..(MaxRunLen + 1)}

FilterContents ==
    {Text("content", p) : p \in SeqUpTo(FilterTokens, MaxFilterRespLen) \ {<<>>}}

\* elapsed_time > max_execution_time
BudgetExceeded(elapsed) == elapsed > MAX_EXECUTION_TIME_SECONDS

Entered(phase) == Append(o_invoked, [phase |-> phase, checked |-> o_checked])

\* The steps after fetch_news without the elapsed-time check
MutAfterCollectNoBudgetCheck(elapsed, articles, filter_criteria) ==
    IF articles = <<>> THEN "abort"
    ELSE IF filter_criteria THEN "check_filter"
    ELSE "check_summarize"

\* Lines 56-66: where run goes when fetch_news has returned
AfterCollect(elapsed, articles, filter_criteria) ==
    IF BudgetExceeded(elapsed) THEN "abort"
    ELSE IF articles = <<>> THEN "abort"
    ELSE IF filter_criteria THEN "check_filter"
    ELSE "check_summarize"

RunInit ==
    /\ o_filter_criteria \in BOOLEAN
    /\ o_format \in {"markdown", "plain"}
    /\ o_elapsed = 0
    /\ o_collect_elapsed = 0
    /\ o_checked = FALSE
    /\ o_invoked = <<>>
    /\ o_articles = <<>>
    /\ o_summarized = <<>>
    /\ o_digest = "none"
    /\ o_result = "pending"
    /\ o_pc = "collect"

RunIdle ==
    /\ o_filter_criteria = FALSE
    /\ o_format = "markdown"
    /\ o_elapsed = 0
    /\ o_collect_elapsed = 0
    /\ o_checked = FALSE
    /\ o_invoked = <<>>
    /\ o_articles = <<>>
    /\ o_summarized = <<>>
    /\ o_digest = "none"
    /\ o_result = "pending"
    /\ o_pc = "idle"

\* Phase 1: articles = self.fetcher.fetch_news(...)
RunCollect ==
    /\ o_pc = "collect"
    /\ \E n \in 0..MaxRunLen : o_articles' = RunBatch(n)
    /\ \E d \in PhaseSeconds :
          /\ o_elapsed' = o_elapsed + d
          /\ o_collect_elapsed' = o_elapsed + d
    /\ o_invoked' = Entered("collect")
    /\ o_checked' = FALSE
    /\ o_pc' = "after_collect"
    /\ UNCHANGED <<o_filter_criteria, o_format, o_summarized, o_digest, o_result,
                   dvars, kvars, rvars, svars, fvars>>

\* The budget check and the empty check after phase 1
RunAfterCollect ==
    /\ o_pc = "after_collect"
    /\ LET next == AfterCollect(o_elapsed, o_articles, o_filter_criteria)
       IN  /\ o_pc' = IF next = "abort" THEN "done" ELSE next
           /\ o_result' = IF next = "abort" THEN "None" ELSE o_result
    /\ o_checked' = TRUE
    /\ UNCHANGED <<o_filter_criteria, o_format, o_elapsed, o_collect_elapsed, o_invoked,
                   o_articles, o_summarized, o_digest, dvars, kvars, rvars, svars, fvars>>

\* A budget check before a phase: return None, or go on to the phase
RunCheck(at, phase) ==
    /\ o_pc = at
    /\ IF BudgetExceeded(o_elapsed)
       THEN o_pc' = "done" /\ o_result' = "None"
       ELSE o_pc' = phase /\ o_result' = o_result
    /\ o_checked' = TRUE
    /\ UNCHANGED <<o_filter_criteria, o_format, o_elapsed, o_collect_elapsed, o_invoked,
                   o_articles, o_summarized, o_digest, dvars, kvars, rvars, svars, fvars>>

RunCheckFilter == RunCheck("check_filter", "filter")

RunCheckSummarize == RunCheck("check_summarize", "summarize")

RunCheckThemes == RunCheck("check_themes", "themes")

RunCheckCompile == RunCheck("check_compile", "compile")

\* Phase 2: articles = self.fetcher.filter_articles(articles, filter_criteria)
RunFilter ==
    /\ o_pc = "filter"
    /\ \E outcome \in Outcomes(FilterContents) :
          o_articles' = FilterArticles(o_articles, o_filter_criteria, Execute(outcome))
    /\ \E d \in PhaseSeconds : o_elapsed' = o_elapsed + d
    /\ o_invoked' = Entered("filter")
    /\ o_checked' = FALSE
    /\ o_pc' = "check_summarize"
    /\ UNCHANGED <<o_filter_criteria, o_format, o_collect_elapsed, o_summarized, o_digest,
                   o_result, dvars, kvars, rvars, svars, fvars>>

\* Phase 3: summarized_articles = self.summarizer.summarize_articles(articles);
\* the capability does the same on every call of the phase
RunSummarize ==
    /\ o_pc = "summarize"
    /\ \E outcome \in Outcomes(SummaryContents) :
          o_summarized' = [i \in 1..Len(o_articles) |-> SummarizeOne(o_articles[i], outcome)]
    /\ \E d \in PhaseSeconds : o_elapsed' = o_elapsed + d
    /\ o_invoked' = Entered("summarize")
    /\ o_checked' = FALSE
    /\ o_pc' = "check_themes"
    /\ UNCHANGED <<o_filter_criteria, o_format, o_collect_elapsed, o_articles, o_digest,
                   o_result, dvars, kvars, rvars, svars, fvars>>

\* Phase 4: themes = self.summarizer.identify_themes(summarized_articles)
RunThemes ==
    /\ o_pc = "themes"
    /\ \E d \in PhaseSeconds : o_elapsed' = o_elapsed + d
    /\ o_invoked' = Entered("themes")
    /\ o_checked' = FALSE
    /\ o_pc' = "check_compile"
    /\ UNCHANGED <<o_filter_criteria, o_format, o_collect_elapsed, o_articles, o_summarized,
                   o_digest, o_result, dvars, kvars, rvars, svars, fvars>>

\* Phase 5: format_digest_markdown, or compile_digest through the capability
RunCompile ==
    /\ o_pc = "compile"
    /\ o_digest' = IF o_format = "markdown" THEN "formatted" ELSE "compiled"
    /\ \E d \in PhaseSeconds : o_elapsed' = o_elapsed + d
    /\ o_invoked' = Entered("compile")
    /\ o_checked' = FALSE
    /\ o_pc' = "save"
    /\ UNCHANGED <<o_filter_criteria, o_format, o_collect_elapsed, o_articles, o_summarized,
                   o_result, dvars, kvars, rvars, svars, fvars>>

\* Phase 6: filepath = self.compiler.save_digest(digest); return filepath
RunSave ==
    /\ o_pc = "save"
    /\ \E d \in PhaseSeconds : o_elapsed' = o_elapsed + d
    /\ o_invoked' = Entered("save")
    /\ o_checked' = FALSE
    /\ o_result' = "filepath"
    /\ o_pc' = "done"
    /\ UNCHANGED <<o_filter_criteria, o_format, o_collect_elapsed, o_articles, o_summarized,
                   o_digest, dvars, kvars, rvars, svars, fvars>>

RunNext ==
    \/ RunCollect \/ RunAfterCollect
    \/ RunCheckFilter \/ RunFilter
    \/ RunCheckSummarize \/ RunSummarize
    \/ RunCheckThemes \/ RunThemes
    \/ RunCheckCompile \/ RunCompile
    \/ RunSave

----------------------------------------------------------------------------
(* NewsFetcherAgent._is_ai_related *)

AI_KEYWORDS ==
    {<<"a", "i">>,
     <<"a", "r", "t", "i", "f", "i", "c", "i", "a", "l", " ", "i", "n", "t", "e", "l", "l", "i", "g", "e", "n", "c", "e">>,
     <<"m", "a", "c", "h", "i", "n", "e", " ", "l", "e", "a", "r", "n", "i", "n", "g">>,
     <<"m", "l">>,
     <<"d", "e", "e", "p", " ", "l", "e", "a", "r", "n", "i", "n", "g">>,
     <<"n", "e", "u", "r", "a", "l", " ", "n", "e", "t", "w", "o", "r", "k">>,
     <<"l", "l", "m">>,
     <<"l", "a", "r", "g", "e", " ", "l", "a", "n", "g", "u", "a", "g", "e", " ", "m", "o", "d", "e", "l">>,
     <<"g", "p", "t">>,
     <<"o", "p", "e", "n", "a", "i">>,
     <<"c", "l", "a", "u", "d", "e">>,
     <<"g", "e", "m", "i", "n", "i">>,
     <<"c", "h", "a", "t", "b", "o", "t">>,
     <<"g", "e", "n", "e", "r", "a", "t", "i", "v", "e", " ", "a", "i">>,
     <<"g", "e", "n", " ", "a", "i">>,
     <<"t", "r", "a", "n", "s", "f", "o", "r", "m", "e", "r">>,
     <<"n", "l", "p">>,
     <<"n", "a", "t", "u", "r", "a", "l", " ", "l", "a", "n", "g", "u", "a", "g", "e", " ", "p", "r", "o", "c", "e", "s", "s", "i", "n", "g">>,
     <<"c", "o", "m", "p", "u", "t", "e", "r", " ", "v", "i", "s", "i", "o", "n">>,
     <<"r", "e", "i", "n", "f", "o", "r", "c", "e", "m", "e", "n", "t", " ", "l", "e", "a", "r", "n", "i", "n", "g">>,
     <<"a", "i", " ", "m", "o", "d", "e", "l">>,
     <<"a", "i", " ", "t", "o", "o", "l">>,
     <<"a", "i", " ", "r", "e", "s", "e", "a", "r", "c", "h">>,
     <<"a", "i", " ", "e", "t", "h", "i", "c", "s">>,
     <<"a", "g", "i">>,
     <<"a", "i", " ", "s", "a", "f", "e", "t", "y">>,
     <<"a", "n", "t", "h", "r", "o", "p", "i", "c">>,
     <<"d", "e", "e", "p", "m", "i", "n", "d">>,
     <<"h", "u", "g", "g", "i", "n", "g", " ", "f", "a", "c", "e">>,
     <<"s", "t", "a", "b", "l", "e", " ", "d", "i", "f", "f", "u", "s", "i", "o", "n">>,
     <<"m", "i", "d", "j", "o", "u", "r", "n", "e", "y">>,
     <<"a", "i", " ", "a", "g", "e", "n", "t">>,
     <<"a", "u", "t", "o", "n", "o", "m", "o", "u", "s">>,
     <<"n", "e", "u", "r", "a", "l">>,
     <<"e", "m", "b", "e", "d", "d", "i", "n", "g", "s">>,
     <<"v", "e", "c", "t", "o", "r", " ", "d", "a", "t", "a", "b", "a", "s", "e">>,
     <<"a", "i", " ", "s", "t", "a", "r", "t", "u", "p">>,
     <<"a", "i", " ", "i", "n", "v", "e", "s", "t", "m", "e", "n", "t">>,
     <<"a", "i", " ", "r", "e", "g", "u", "l", "a", "t", "i", "o", "n">>,
     <<"a", "i", " ", "p", "o", "l", "i", "c", "y">>}

\* keyword in combined_text
Contains(text, keyword) ==
    \E i \in 1..(Len(text) - Len(keyword) + 1) :
        SubSeq(text, i, i + Len(keyword) - 1) = keyword

IsAiRelated(article_data) ==
    LET combined_text ==
            LowerStr(article_data.title) \o <<" ">> \o LowerStr(article_data.description)
    IN  \E keyword \in AI_KEYWORDS : Contains(combined_text, keyword)

----------------------------------------------------------------------------
(* NewsFetcherAgent.fetch_news *)

\* config.ARTICLES_PER_SOURCE, config.MAX_FEEDS_TO_PROCESS, and the number of
\* urls in config.NEWS_SOURCES["rss_feeds"]
ARTICLES_PER_SOURCE == 5
MAX_FEEDS_TO_PROCESS == 5
ConfiguredFeeds == 5

\* feeds = feeds[:config.MAX_FEEDS_TO_PROCESS]
FeedCount == Min({ConfiguredFeeds, MAX_FEEDS_TO_PROCESS})

\* datetime.now() during collection: the last hour of the model's clock
FetchNow == MaxClock

NoDescription == <<"N", "o", " ", "d", "e", "s", "c", "r", "i", "p", "t", "i", "o", "n", " ", "a", "v", "a", "i", "l", "a", "b", "l", "e">>

\* A feed entry: a dict with the keys `keys`; `malformed` marks an entry whose
\* fields make the construction or the topic check of the article raise
Entry(keys, title, summary, link, published, malformed) ==
    [keys |-> keys, title |-> title, summary |-> summary, description |-> summary,
     link |-> link, published |-> published, updated |-> published,
     malformed |-> malformed]

\* entry.get(key, default)
Get(entry, key, default) == IF key \in entry.keys THEN entry[key] ELSE default

AllKeys == {"title", "summary", "link", "published"}

RecentDate == Published("naive", FetchNow - 10, 0)

OldDate == Published("aware", FetchNow - 24 * (MAX_ARTICLE_AGE_DAYS + 1), 2)

EntryChips == Entry(AllKeys, TitleChips, DescShort, "https://a/1", RecentDate, FALSE)

EntryShips == Entry(AllKeys, TitleShips, DescLong, "https://a/2", RecentDate, FALSE)

EntryChipBang ==
    Entry({"title", "description", "link", "updated"}, TitleChipBang, DescLong,
          "https://a/3", RecentDate, FALSE)

EntryLlm == Entry(AllKeys, TitleLlm, DescShort, "https://a/4", RecentDate, FALSE)

EntryGpt == Entry({"summary", "link", "published"}, TitleGpt, TitleGpt, "https://a/5",
                  RecentDate, FALSE)

EntryOld == Entry(AllKeys, TitleChips, DescLong, "https://a/6", OldDate, FALSE)

EntryNoDate == Entry({"title", "summary", "link"}, TitleChips, DescShort, "https://a/7",
                     RecentDate, FALSE)

EntryOffTopic == Entry(AllKeys, TitleTax, DescShort, "https://a/8", RecentDate, FALSE)

EntryNoLinkMl == Entry({"title", "summary", "published"}, TitleMl, DescShort, "",
                       RecentDate, FALSE)

EntryNoLinkNlp == Entry({"title", "summary", "published"}, TitleNlp, DescLong, "",
                        RecentDate, FALSE)

EntryMalformed == Entry(AllKeys, TitleChips, DescShort, "https://a/9", RecentDate, TRUE)

FeedEntries ==
    {EntryChips, EntryShips, EntryChipBang, EntryLlm, EntryGpt, EntryOld, EntryNoDate,
     EntryOffTopic, EntryNoLinkMl, EntryNoLinkNlp, EntryMalformed}

\* What feedparser.parse gives for one feed: it raises, or a feed with a
\* title (or none) and entries
Feed(raises, keys, title, entries) ==
    [raises |-> raises, keys |-> keys, title |-> title, entries |-> entries]

FeedUnreachable == Feed(TRUE, {}, "", <<>>)

FeedEmpty == Feed(FALSE, {}, "", <<>>)

FeedLong ==
    Feed(FALSE, {"title"}, "Feed A",
         <<EntryChips, EntryShips, EntryLlm, EntryGpt, EntryChipBang, EntryChips,
           EntryShips>>)

FeedMixed ==
    Feed(FALSE, {"title"}, "Feed B",
         <<EntryOld, EntryOffTopic, EntryChips, EntryNoDate, EntryLlm, EntryNoLinkMl>>)

FeedBroken ==
    Feed(FALSE, {}, "", <<EntryGpt, EntryOffTopic, EntryNoLinkNlp, EntryMalformed, EntryChips>>)

FeedBehaviours == {FeedUnreachable, FeedEmpty, FeedLong, FeedMixed, FeedBroken}

\* The argument max_articles: None, or a number
MaxArticlesArg(given, n) == [given |-> given, n |-> n]

\* Lines 284-307 for one entry: "old", "raise", "non_ai" or "accept"
EntryVerdict(entry) ==
    LET published_date ==
            Get(entry, "published",
                Get(entry, "updated", Published("unknown", 0, 0)))
        title == Get(entry, "title", NoTitle)
        description == Get(entry, "summary", Get(entry, "description", NoDescription))
    IN  IF ~IsArticleRecent(published_date, AgeArg(FALSE, 0), FetchNow).value THEN "old"
        ELSE IF entry.malformed THEN "raise"
        ELSE IF ~IsAiRelated([title |-> title, description |-> description]) THEN "non_ai"
        ELSE "accept"

\* The article dict of lines 292-299
ArticleOf(entry, source_name) ==
    Article(Get(entry, "title", NoTitle),
            Get(entry, "summary", Get(entry, "description", NoDescription)),
            Get(entry, "link", ""),
            Get(entry, "published", Get(entry, "updated", Published("unknown", 0, 0))),
            source_name)

\* The verdicts of the model's entries, computed once
EntryVerdicts == {<<e, EntryVerdict(e)>> : e \in FeedEntries}

VerdictOf(entry) ==
    IF \E p \in EntryVerdicts : p[1] = entry
    THEN (CHOOSE p \in EntryVerdicts : p[1] = entry)[2]
    ELSE EntryVerdict(entry)

\* A cap test that lets one more item through
MutCapReachedOffByOne(added) == added > ARTICLES_PER_SOURCE

\* if feed_articles_added >= articles_per_source: break
CapReached(added) == added >= ARTICLES_PER_SOURCE

\* An except branch that leaves the loop over the feeds
MutAfterFeedErrorStops(feed) == FeedCount

\* Where the outer loop goes when the try body of a feed raised: the except
\* branch continues with the next feed
AfterFeedError(feed) == feed + 1

\* _deduplicate_articles as a whole
RECURSIVE DedupFrom(_, _)
DedupFrom(st, items) ==
    IF items = <<>> THEN st ELSE DedupFrom(DedupOne(st, Head(items)), Tail(items))

DeduplicateArticles(items) ==
    DedupFrom([deduplicated |-> <<>>, seen_urls |-> {}, duplicates_removed |-> 0],
              items).deduplicated

\* _rank_articles_efficiently as a whole, given what the capability does if called
RankArticlesEfficiently(items, target_count, smart, outcome) ==
    LET tier == RankTier(items, target_count, smart)
    IN  IF tier = 0 THEN items
        ELSE IF tier = 1 THEN RecencySelection(items, target_count)
        ELSE ParseRanking(items, target_count, Execute(outcome))

\* config.SMART_RANKING_ENABLED
SMART_RANKING_ENABLED == TRUE

FetchInit ==
    /\ f_feeds \in [1..FeedCount -> FeedBehaviours]
    /\ f_max_articles \in {MaxArticlesArg(FALSE, 0), MaxArticlesArg(TRUE, MaxTarget)}
    /\ f_feed = 0
    /\ f_entry = 0
    /\ feed_articles_added = 0
    /\ f_articles = <<>>
    /\ f_origin = <<>>
    /\ f_failed = {}
    /\ rejected_old_articles = 0
    /\ rejected_non_ai_articles = 0
    /\ f_result = <<>>
    /\ f_printed = {}
    /\ f_pc = "next_feed"

FetchIdle ==
    /\ f_feeds = <<>>
    /\ f_max_articles = MaxArticlesArg(FALSE, 0)
    /\ f_feed = 0
    /\ f_entry = 0
    /\ feed_articles_added = 0
    /\ f_articles = <<>>
    /\ f_origin = <<>>
    /\ f_failed = {}
    /\ rejected_old_articles = 0
    /\ rejected_non_ai_articles = 0
    /\ f_result = <<>>
    /\ f_printed = {}
    /\ f_pc = "idle"

\* for feed_url in feeds: feed = feedparser.parse(feed_url) raises
FetchParseFails ==
    /\ f_pc = "next_feed"
    /\ f_feed < FeedCount
    /\ f_feeds[f_feed + 1].raises
    /\ f_failed' = f_failed \cup {f_feed + 1}
    /\ f_feed' = AfterFeedError(f_feed)
    /\ UNCHANGED <<f_feeds, f_max_articles, f_entry, feed_articles_added, f_articles, f_origin,
                   rejected_old_articles, rejected_non_ai_articles, f_result, f_printed, f_pc,
                   dvars, kvars, rvars, svars, ovars>>

\* feed = feedparser.parse(feed_url); feed_articles_added = 0
FetchParse ==
    /\ f_pc = "next_feed"
    /\ f_feed < FeedCount
    /\ ~f_feeds[f_feed + 1].raises
    /\ feed_articles_added' = 0
    /\ f_entry' = 0
    /\ f_pc' = "entries"
    /\ UNCHANGED <<f_feeds, f_max_articles, f_feed, f_articles, f_origin, f_failed,
                   rejected_old_articles, rejected_non_ai_articles, f_result, f_printed,
                   dvars, kvars, rvars, svars, ovars>>

\* The inner loop ends: the entries are exhausted or the cap is reached
FetchFeedDone ==
    /\ f_pc = "entries"
    /\ f_entry = Len(f_feeds[f_feed + 1].entries) \/ CapReached(feed_articles_added)
    /\ f_feed' = f_feed + 1
    /\ f_pc' = "next_feed"
    /\ UNCHANGED <<f_feeds, f_max_articles, f_entry, feed_articles_added, f_articles, f_origin,
                   f_failed, rejected_old_articles, rejected_non_ai_articles, f_result, f_printed,
                   dvars, kvars, rvars, svars, ovars>>

\* One iteration of the inner loop
FetchEntry ==
    /\ f_pc = "entries"
    /\ f_entry < Len(f_feeds[f_feed + 1].entries)
    /\ ~CapReached(feed_articles_added)
    /\ LET feed == f_feeds[f_feed + 1]
           entry == feed.entries[f_entry + 1]
           source_name == Get(feed, "title", "Unknown Source")
           verdict == VerdictOf(entry)
       IN  /\ rejected_old_articles' = rejected_old_articles + (IF verdict = "old" THEN 1 ELSE 0)
           /\ rejected_non_ai_articles' =
                  rejected_non_ai_articles + (IF verdict = "non_ai" THEN 1 ELSE 0)
           /\ f_articles' = IF verdict = "accept"
                          THEN Append(f_articles, ArticleOf(entry, source_name))
                          ELSE f_articles
           /\ f_origin' = IF verdict = "accept" THEN Append(f_origin, f_feed + 1) ELSE f_origin
           /\ feed_articles_added' = feed_articles_added + (IF verdict = "accept" THEN 1 ELSE 0)
           /\ f_failed' = IF verdict = "raise" THEN f_failed \cup {f_feed + 1} ELSE f_failed
           /\ f_feed' = IF verdict = "raise" THEN AfterFeedError(f_feed) ELSE f_feed
           /\ f_pc' = IF verdict = "raise" THEN "next_feed" ELSE f_pc
           /\ f_entry' = f_entry + 1
    /\ UNCHANGED <<f_feeds, f_max_articles, f_result, f_printed, dvars, kvars, rvars, svars, ovars>>

\* The answers of the ranking capability during a collection run: pieces
\* that are no number, 0, or a number up to one past max_articles
FetchRankTokens == {Junk} \cup {Token(TRUE, v) : v \in 0..(MaxTarget + 1)}

FetchRankContents ==
    {Text("content", p) : p \in SeqUpTo(FetchRankTokens, MaxTarget) \ {<<>>}}

\* Lines 315-317: the counts the two summary lines after the loop print
ReportedCounts(rejected_old, rejected_non_ai) ==
    {"accepted"} \cup (IF rejected_old > 0 THEN {"rejected_old", "rejected_non_ai"} ELSE {})

\* After the outer loop: the summary lines, then the early return, or
\* deduplication and ranking
FetchFinish ==
    /\ f_pc = "next_feed"
    /\ f_feed >= FeedCount
    /\ f_printed' = ReportedCounts(rejected_old_articles, rejected_non_ai_articles)
    /\ LET max_articles == IF f_max_articles.given THEN f_max_articles.n ELSE MAX_ARTICLES
           unique == DeduplicateArticles(f_articles)
       IN  IF f_articles = <<>> THEN f_result' = f_articles
           ELSE IF Len(unique) > max_articles
           THEN \E outcome \in Outcomes(FetchRankContents) :
                    f_result' = RankArticlesEfficiently(unique, max_articles,
                                                        SMART_RANKING_ENABLED, outcome)
           ELSE f_result' = unique
    /\ f_pc' = "done"
    /\ UNCHANGED <<f_feeds, f_max_articles, f_feed, f_entry, feed_articles_added, f_articles,
                   f_origin, f_failed, rejected_old_articles, rejected_non_ai_articles,
                   dvars, kvars, rvars, svars, ovars>>

FetchNext == FetchParseFails \/ FetchParse \/ FetchFeedDone \/ FetchEntry \/ FetchFinish

----------------------------------------------------------------------------
(* Specifications: one per operation, the other operations' variables idle *)

InitDedup == DedupInit /\ RankIdle /\ RecentIdle /\ SumIdle /\ RunIdle /\ FetchIdle

InitRank == RankInit /\ DedupIdle /\ RecentIdle /\ SumIdle /\ RunIdle /\ FetchIdle

InitRecent == RecentInit /\ DedupIdle /\ RankIdle /\ SumIdle /\ RunIdle /\ FetchIdle

InitSum == SumInit /\ DedupIdle /\ RankIdle /\ RecentIdle /\ RunIdle /\ FetchIdle

InitRun == RunInit /\ DedupIdle /\ RankIdle /\ RecentIdle /\ SumIdle /\ FetchIdle

InitFetch == FetchInit /\ DedupIdle /\ RankIdle /\ RecentIdle /\ SumIdle /\ RunIdle

SpecDedup == InitDedup /\ [][DedupNext]_vars

SpecRank == InitRank /\ [][RankNext]_vars

SpecRecent == InitRecent /\ [][RecentNext]_vars

SpecSum == InitSum /\ [][SumNext]_vars

SpecRun == InitRun /\ [][RunNext]_vars

SpecFetch == InitFetch /\ [][FetchNext]_vars

----------------------------------------------------------------------------
(* Properties of the deduplicator *)

\* The loop's state right after the k-th item was consumed
DedupAfter(k) == IF k < d_pos THEN d_before[k + 1] ELSE DedupState

\* Number of positions of s holding x
Occurrences(s, x) == Cardinality({i \in 1..Len(s) : s[i] = x})

\* s holds the two items x and y side by side (twice, when they are equal)
ContainsBoth(s, x, y) ==
    IF x = y THEN Occurrences(s, x) >= 2 ELSE x \in Range(s) /\ y \in Range(s)

\* The k-th item replaced a kept item: the result changed and did not grow
Replaced(k) ==
    /\ DedupAfter(k).deduplicated # d_before[k].deduplicated
    /\ Len(DedupAfter(k).deduplicated) = Len(d_before[k].deduplicated)

\* C1: at every point of the loop and at the return, no two positions of the
\* result list carry the same link, also after near-duplicate replacements.
C1_NoTwoItemsShareALink ==
    \A i, j \in 1..Len(deduplicated) :
        i # j => deduplicated[i].link # deduplicated[j].link

\* C1 witness: the call returned two items, after a replacement, from an input
\* in which two items carried the same link.
C1_Witness ==
    /\ d_pc = "done"
    /\ Len(deduplicated) = 2
    /\ \E k \in 1..d_pos : Replaced(k)
    /\ \E i, j \in 1..Len(d_articles) :
          i # j /\ d_articles[i].link = d_articles[j].link

\* C2 as stated, for the incoming items that reach the title comparison (their
\* link is unseen): for every such item and every item kept before it whose
\* title is a near-duplicate of the incoming one, the output does not hold
\* both, and the one of the two it holds has the description at least as long.
C2_NeverBothOfAnySimilarPair ==
    d_pc = "done" =>
        \A k \in 1..Len(d_articles) :
            \A e \in Range(d_before[k].deduplicated) :
                (/\ d_articles[k].link \notin d_before[k].seen_urls
                 /\ IsDuplicateTitle(d_articles[k].title, e.title)) =>
                    LET inc == d_articles[k]
                        out == Range(deduplicated)
                    IN  /\ ~ContainsBoth(deduplicated, inc, e)
                        /\ (inc \in out /\ e \notin out) =>
                              Len(inc.description) >= Len(e.description)
                        /\ (e \in out /\ inc \notin out) =>
                              Len(e.description) >= Len(inc.description)

\* C2 amended: for every incoming item with an unseen link that has a
\* near-duplicate among the kept items, neither the result right after it nor
\* the output holds both it and the FIRST such kept item in result order; right
\* after it the result holds exactly one of the two, the incoming one only if
\* its description is strictly longer, else the kept one.
C2_NeverBothOfFirstMatch ==
    \A k \in 1..d_pos :
        LET inc    == d_articles[k]
            before == d_before[k]
            after  == DedupAfter(k).deduplicated
            hits   == SimilarPositions(before.deduplicated, inc.title)
        IN  (inc.link \notin before.seen_urls /\ hits # {}) =>
                LET e == before.deduplicated[Min(hits)]
                IN  /\ ~ContainsBoth(after, inc, e)
                    /\ d_pc = "done" => ~ContainsBoth(deduplicated, inc, e)
                    /\ IF Len(inc.description) > Len(e.description)
                       THEN inc \in Range(after) /\ e \notin Range(after)
                       ELSE e \in Range(after) /\ Occurrences(after, inc) = Occurrences(before.deduplicated, inc)

\* C2 witness: the call returned after an incoming item with two near-duplicates
\* among the kept items replaced the first of them.
C2_Witness ==
    /\ d_pc = "done"
    /\ \E k \in 1..d_pos :
          /\ d_articles[k].link \notin d_before[k].seen_urls
          /\ Cardinality(SimilarPositions(d_before[k].deduplicated, d_articles[k].title)) >= 2
          /\ Replaced(k)

\* The links of the items of a list
LinksOf(s) == {s[i].link : i \in 1..Len(s)}

\* C18: after each processed item, also after a replacement, the set of seen
\* links equals the set of links of the items in the result, so that an item
\* is dropped as an exact duplicate only if its link is in the result.
C18_SeenLinksAreResultLinks ==
    seen_urls = LinksOf(deduplicated)

\* C19: an incoming item with an unseen link and near-duplicates among the
\* kept items is measured against the first of them in result order only: it
\* takes that item's place iff its description is strictly longer, every
\* other kept item stays, unchanged and in order, and the result does not grow.
C19_TieBreakAgainstFirstMatchOnly ==
    \A k \in 1..d_pos :
        LET inc    == d_articles[k]
            before == d_before[k].deduplicated
            after  == DedupAfter(k).deduplicated
            hits   == SimilarPositions(before, inc.title)
            first  == Min(hits)
            others == [j \in 1..(Len(before) - 1) |->
                          IF j < first THEN before[j] ELSE before[j + 1]]
        IN  (inc.link \notin d_before[k].seen_urls /\ hits # {}) =>
                /\ Len(after) = Len(before)
                /\ IF Len(inc.description) > Len(before[first].description)
                   THEN /\ after[Len(after)] = inc
                        /\ [j \in 1..(Len(after) - 1) |-> after[j]] = others
                   ELSE after = before

\* C19 witness: the call returned after an incoming item with two
\* near-duplicates among the kept items, its description as long as the
\* first one's and longer than the second one's, left the result as it was.
C19_Witness ==
    /\ d_pc = "done"
    /\ \E k \in 1..d_pos :
          LET inc    == d_articles[k]
              before == d_before[k].deduplicated
              hits   == SimilarPositions(before, inc.title)
          IN  /\ inc.link \notin d_before[k].seen_urls
              /\ Cardinality(hits) >= 2
              /\ Len(inc.description) = Len(before[Min(hits)].description)
              /\ \E j \in hits : Len(inc.description) > Len(before[j].description)
              /\ DedupAfter(k).deduplicated = before

\* C21: _deduplicate_articles is idempotent: applied to its own output it
\* returns that output unchanged, the same items in the same order.
C21_DeduplicationIsIdempotent ==
    d_pc = "done" => DeduplicateArticles(deduplicated) = deduplicated

----------------------------------------------------------------------------
(* Properties of the selector *)

\* C3: the selector returns at most target_count items, whatever the ranking
\* capability answers; when the input has at most target_count items it
\* returns the input list itself and has not called the capability.
C3_AtMostTargetAndNoOpWithinLimit ==
    k_pc = "done" =>
        /\ Len(k_result) <= k_target
        /\ Len(k_articles) <= k_target => (k_result = k_articles /\ k_calls = 0)

\* C3 witness: the capability answered more in-range numbers than target_count
\* and the call returned target_count items.
C3_Witness ==
    /\ k_pc = "done"
    /\ k_calls = 1
    /\ k_response.kind = "content"
    /\ Len(PickInRange(k_articles, [k \in 1..Len(k_response.parts) |->
                                        k_response.parts[k].val - 1])) > k_target
    /\ Len(k_result) = k_target
    /\ k_target > 0

----------------------------------------------------------------------------
\* The capability call of the paid tier gave nothing to parse: it failed or
\* timed out (execute returned its error text), the completion carried no
\* content, or a comma-separated piece is not an integer
RankResponseUnusable ==
    \/ k_response.kind \in {"None", "timeout_error", "task_error"}
    \/ \E k \in 1..Len(k_response.parts) : ~k_response.parts[k].ok

\* C11: in the paid tier, when the capability fails, times out or answers
\* something that is not comma-separated integers, the result is the first
\* target_count items of the input in input order, and the call does not raise.
C11_PaidTierFallsBackToFirstItems ==
    /\ k_pc # "raised"
    /\ (k_pc = "done" /\ k_calls = 1 /\ RankResponseUnusable) =>
          /\ Len(k_result) = Min({k_target, Len(k_articles)})
          /\ \A i \in 1..Len(k_result) : k_result[i] = k_articles[i]

\* C11 witness: the capability timed out in the paid tier and the call
\* returned a non-empty prefix of an input that is not in recency order.
C11_Witness ==
    /\ k_pc = "done"
    /\ k_calls = 1
    /\ k_response.kind = "timeout_error"
    /\ k_result # <<>>
    /\ k_result # Take(SortedByDateDesc(k_articles), k_target)

\* The time a publication stamp parses to, unparseable or unknown ones
\* counting as the minimum time
RecencyKey(a) ==
    IF a.published.kind \in {"naive", "aware"}
    THEN <<1, a.published.hour - a.published.off>>
    ELSE <<0, 0>>

\* The keys of the items, in descending order
KeysDescending(articles) ==
    LET n == Len(articles)
        rank(i) == Cardinality({j \in 1..n : KeyLess(RecencyKey(articles[i]), RecencyKey(articles[j]))})
                   + Cardinality({j \in 1..(i - 1) : RecencyKey(articles[j]) = RecencyKey(articles[i])})
                   + 1
    IN  [p \in 1..n |-> RecencyKey(articles[CHOOSE i \in 1..n : rank(i) = p])]

\* C12: in the free tier the result is the first target_count items of the
\* input in descending order of parsed publication time, an item whose time
\* stamp cannot be parsed counting as the minimum time and so coming after
\* every item with a parseable one.
C12_FreeTierIsMostRecentFirst ==
    (k_pc = "done" /\ RankTier(k_articles, k_target, k_smart) = 1) =>
        /\ Len(k_result) = k_target
        /\ \A p \in 1..Len(k_result) :
              RecencyKey(k_result[p]) = KeysDescending(k_articles)[p]
        /\ \A p \in 1..Len(k_result) :
              Cardinality({q \in 1..Len(k_result) : k_result[q] = k_result[p]})
                  <= Cardinality({q \in 1..Len(k_articles) : k_articles[q] = k_result[p]})

\* C13: the ranking capability is called at most once per call, and only when
\* smart ranking is enabled and len(items) > 1.5 * target_count; in every
\* other case the call returns without any call of the capability.
C13_CapabilityCalledOnlyInPaidTier ==
    /\ k_calls <= 1
    /\ k_calls = 1 => (k_smart /\ 2 * Len(k_articles) > 3 * k_target)
    /\ (k_pc = "done" /\ ~(k_smart /\ 2 * Len(k_articles) > 3 * k_target)) => k_calls = 0

\* C13 witness: with ranking disabled and more than 1.5 * target_count items
\* the call returned without calling the capability.
C13_Witness ==
    /\ k_pc = "done"
    /\ ~k_smart
    /\ 2 * Len(k_articles) > 3 * k_target
    /\ k_target > 0
    /\ k_calls = 0

\* The numbers of a response all of whose pieces are integers
RankNumbers == [k \in 1..Len(k_response.parts) |-> k_response.parts[k].val]

\* The numbers of the response that name an input item, in response order
InRangeNumbers == SelectSeq(RankNumbers, LAMBDA v : v \in 1..Len(k_articles))

\* C14: in the paid tier, when every piece of the response is an integer, the
\* result is the input items at the in-range 1-based numbers, in the order
\* the response lists them, numbers outside 1..len(items) skipped, cut to the
\* first target_count.
C14_PaidTierFollowsResponseOrder ==
    (k_pc = "done" /\ k_calls = 1 /\ ~RankResponseUnusable) =>
        /\ Len(k_result) = Min({k_target, Len(InRangeNumbers)})
        /\ \A p \in 1..Len(k_result) : k_result[p] = k_articles[InRangeNumbers[p]]

\* C14 witness: the response listed a negative number and then two in-range
\* numbers against the input order, and the call returned the two items.
C14_Witness ==
    /\ k_pc = "done"
    /\ k_calls = 1
    /\ ~RankResponseUnusable
    /\ \E k \in 1..Len(RankNumbers) : RankNumbers[k] <= 0 \/ RankNumbers[k] > Len(k_articles)
    /\ Len(k_result) = 1
    /\ k_target >= 1
    /\ k_result[1] # k_articles[1]

----------------------------------------------------------------------------
(* Properties of the recency filter *)

\* The max_age_days in force: the argument, or the configured default
MaxAgeInForce == IF r_max_age.given THEN r_max_age.days ELSE MAX_ARTICLE_AGE_DAYS

\* C7: for a missing time stamp (None or empty), the "Unknown date" sentinel
\* and an unparseable one, whatever max_age_days is, _is_article_recent
\* returns False, and the call never raises.
C7_UnknownAgeIsRejectedWithoutRaising ==
    /\ r_pc # "raised"
    /\ (r_pc = "done" /\ r_published \in UnparsedDates) => r_result = FALSE

\* C7 witness: the call returned for an unparseable time stamp with an
\* explicit max_age_days.
C7_Witness ==
    /\ r_pc = "done"
    /\ r_published.kind = "garbage"
    /\ r_max_age.given
    /\ r_result = FALSE

\* C8: for a parseable time stamp _is_article_recent returns True exactly when
\* now - parsed is at most max_age_days days (24 * max_age_days hours), so any
\* older item is rejected and every future-dated one accepted.
C8_RecentIffAgeAtMostMaxAgeDays ==
    (r_pc = "done" /\ r_published \in ParsedDates) =>
        (r_result = TRUE <=> r_now - r_published.hour <= 24 * MaxAgeInForce)

----------------------------------------------------------------------------
(* Properties of the summarizer *)

\* C6: when the capability fails or times out on an article's call, that
\* article is in the output at its place without an ai_summary, and the loop
\* goes on to the remaining articles.
C6_FailedArticleKeptWithoutSummary ==
    /\ \A k \in 1..s_pos :
          s_outcomes[k].kind \in {"timeout", "error"} =>
              summarized_articles[k] = Unenriched(s_articles[k])
    /\ s_pc = "done" => Len(summarized_articles) = Len(s_articles)

----------------------------------------------------------------------------
(* Properties of the workflow coordinator *)

\* C4: every phase after Collect (filter, summarize, themes, compile, save) is
\* entered directly after a budget check: none has started without a check
\* between the end of the phase before it and its own start.
C4_EveryLaterPhaseEnteredAfterCheck ==
    \A i \in 1..Len(o_invoked) :
        o_invoked[i].phase # "collect" => o_invoked[i].checked

\* C5: if the elapsed time exceeds the budget when Collect returns, run returns
\* None, and no phase but Collect has been or is about to be entered.
C5_TimeoutAfterCollectStopsRun ==
    (o_pc \notin {"idle", "collect", "after_collect"}
        /\ o_collect_elapsed > MAX_EXECUTION_TIME_SECONDS) =>
        /\ o_pc = "done"
        /\ o_result = "None"
        /\ o_digest = "none"
        /\ \A i \in 1..Len(o_invoked) : o_invoked[i].phase = "collect"

\* C5 witness: Collect returned a non-empty batch over budget and run is over.
C5_Witness ==
    /\ o_pc = "done"
    /\ o_collect_elapsed > MAX_EXECUTION_TIME_SECONDS
    /\ o_articles # <<>>
    /\ o_result = "None"

\* C15: run never produces a digest without surviving articles: whenever a
\* digest has been compiled, or saved and its path returned, the batch handed
\* to summarization and compilation holds at least one article, also after
\* the filter phase ran; a finished run without articles has returned None.
C15_NoDigestWithoutArticles ==
    /\ o_digest # "none" => (o_articles # <<>> /\ o_summarized # <<>>)
    /\ (o_pc = "done" /\ o_articles = <<>>) => o_result = "None"

----------------------------------------------------------------------------
(* Properties of the collector *)

\* The collected items that came from feed number j, in order
ItemsFrom(j) ==
    LET idx == {i \in 1..Len(f_articles) : f_origin[i] = j}
        nth(n) == CHOOSE i \in idx : Cardinality({m \in idx : m < i}) = n - 1
    IN  [n \in 1..Cardinality(idx) |-> f_articles[nth(n)]]

\* The articles of the entries of a feed that pass both filters, in order
RECURSIVE AcceptableArticles(_, _)
AcceptableArticles(entries, source_name) ==
    IF entries = <<>> THEN <<>>
    ELSE LET rest == AcceptableArticles(Tail(entries), source_name)
         IN  IF VerdictOf(Head(entries)) = "accept"
             THEN <<ArticleOf(Head(entries), source_name)>> \o rest
             ELSE rest

\* C9: at every point of the collection and for every feed, the number of
\* collected items that came from that feed is at most ARTICLES_PER_SOURCE,
\* however many entries the feed has.
C9_AtMostCapItemsPerSource ==
    /\ feed_articles_added <= ARTICLES_PER_SOURCE
    /\ \A j \in 1..FeedCount : Len(ItemsFrom(j)) <= ARTICLES_PER_SOURCE

\* C9 witness: a feed with more acceptable entries than the cap has been
\* finished with exactly ARTICLES_PER_SOURCE items taken from it.
C9_Witness ==
    \E j \in 1..FeedCount :
        /\ f_pc \in {"next_feed", "done"}
        /\ j <= f_feed
        /\ Len(AcceptableArticles(f_feeds[j].entries, "s")) > ARTICLES_PER_SOURCE
        /\ Len(ItemsFrom(j)) = ARTICLES_PER_SOURCE

\* C16: when fetch_news is over, the count of the items accepted has been
\* printed, and so has each rejection count that is not zero: in particular
\* the rejected-by-topic count whenever an entry was rejected as off-topic,
\* also when no entry was rejected by age.
C16_AllCountsReported ==
    f_pc = "done" =>
        /\ "accepted" \in f_printed
        /\ rejected_old_articles > 0 => "rejected_old" \in f_printed
        /\ rejected_non_ai_articles > 0 => "rejected_non_ai" \in f_printed

\* The title of item j of the batch is a near-duplicate of another item's
HasSimilarTitleInBatch(j) ==
    \E i \in 1..Len(f_articles) :
        i # j /\ IsDuplicateTitle(f_articles[j].title, f_articles[i].title)

\* C17: an entry without a link is dropped before deduplication or treated
\* as always-unique by it: no collected item has an empty link, or, if one
\* has, deduplication drops it for a near-duplicate title only, never as an
\* exact-URL duplicate of another link-less item.
C17_LinkLessItemsAreNeverMerged ==
    f_pc = "done" =>
        \A j \in 1..Len(f_articles) :
            (f_articles[j].link = "" /\ ~HasSimilarTitleInBatch(j)) =>
                f_articles[j] \in Range(DeduplicateArticles(f_articles))

\* C20: the batch fetch_news returns holds no item twice and no two items
\* with the same link, in every tier of the selector, also when the ranking
\* response names the same number more than once.
C20_FinalBatchHasNoRepeats ==
    f_pc = "done" =>
        \A i, j \in 1..Len(f_result) :
            i # j => (f_result[i] # f_result[j] /\ f_result[i].link # f_result[j].link)

\* C10: fetch_news never raises, and when it is over every configured feed has
\* been gone through: from each feed whose processing did not raise, before
\* or after a failing one, the batch holds the first ARTICLES_PER_SOURCE
\* acceptable entries.
C10_FailingSourceDoesNotStopOthers ==
    /\ f_pc # "raised"
    /\ f_pc = "done" =>
          \A j \in 1..FeedCount :
              j \notin f_failed =>
                  ItemsFrom(j) =
                      Take(AcceptableArticles(f_feeds[j].entries,
                                              Get(f_feeds[j], "title", "Unknown Source")),
                           ARTICLES_PER_SOURCE)

\* C10 witness: fetch_news is over, a feed failed, and feeds before and after
\* it each gave items to the batch.
C10_Witness ==
    /\ f_pc = "done"
    /\ \E i, j, k \in 1..FeedCount :
          /\ i < j /\ j < k
          /\ j \in f_failed
          /\ i \notin f_failed /\ k \notin f_failed
          /\ ItemsFrom(i) # <<>> /\ ItemsFrom(k) # <<>>

====
